---- MODULE Spec2Model ----
(***************************************************************************)
(* The C example components of golem: the counter exports add/get over the *)
(* static 64-bit `total`, and the HTTP example's send export, a scripted   *)
(* WASI outgoing-request workflow over own/borrow resource handles.        *)
(*                                                                         *)
(* 64-bit values are kept at their real width: a uint64_t is a sequence of *)
(* NumLimbs limbs of LimbBits bits, least significant first.               *)
(***************************************************************************)
EXTENDS Integers, Sequences, FiniteSets, TLC

(***************************************************************************)
(* Bounds of the model.                                                    *)
(***************************************************************************)
MaxAdds == 2
MaxSends == 1
MaxPolls == 1
MaxReads == 2

(***************************************************************************)
(* uint64_t arithmetic.                                                    *)
(***************************************************************************)
NumLimbs == 4
LimbBits == 16
LimbBase == 2 ^ LimbBits

\* The limbs of a natural number wider than 64 bits (the mathematical sum).
WideLimbs == NumLimbs + 1

Zero(n) == [i \in 1..n |-> 0]

\* x extended with zero limbs to n limbs.
Extend(x, n) == [i \in 1..n |-> IF i <= Len(x) THEN x[i] ELSE 0]

\* The carry into limb i when adding x and y (both of the same length).
RECURSIVE CarryInto(_, _, _)
CarryInto(x, y, i) ==
    IF i = 1 THEN 0
    ELSE (x[i - 1] + y[i - 1] + CarryInto(x, y, i - 1)) \div LimbBase

\* Exact addition of two n-limb numbers, n + 1 limbs wide.
AddExact(x, y) ==
    LET n == Len(x)
        xs == Extend(x, n + 1)
        ys == Extend(y, n + 1)
    IN [i \in 1..(n + 1) |-> (xs[i] + ys[i] + CarryInto(xs, ys, i)) % LimbBase]

\* Addition of n-limb numbers that drops the carry out of the top limb.
AddWrap(x, y) == SubSeq(AddExact(x, y), 1, Len(x))

\* A mutation of Add64: the addition saturates at UINT64_MAX.
Add64Saturating(x, y) ==
    IF AddExact(x, y)[NumLimbs + 1] = 0
    THEN AddWrap(x, y)
    ELSE [i \in 1..NumLimbs |-> LimbBase - 1]

\* A mutation of Add64: the sum is kept in 32 bits.
Add64Low32(x, y) ==
    [i \in 1..NumLimbs |-> IF 2 * i <= NumLimbs THEN AddWrap(x, y)[i] ELSE 0]

\* total += value on uint64_t.
Add64(x, y) == AddWrap(x, y)

\* The values add is called with: 0, 1, 2^63 and UINT64_MAX.
AddValues ==
    { <<0, 0, 0, 0>>,
      <<1, 0, 0, 0>>,
      <<0, 0, 0, LimbBase \div 2>>,
      <<LimbBase - 1, LimbBase - 1, LimbBase - 1, LimbBase - 1>> }

\* A mutation of InitTotal: the counter starts at one.
InitTotalOne == <<1, 0, 0, 0>>

\* static uint64_t total = 0;
InitTotal == Zero(NumLimbs)

(***************************************************************************)
(* The HTTP example: strings, handles and the steps of send.               *)
(***************************************************************************)

\* The handle variables of send.
Handles ==
    { "headers", "request", "out_body", "out_body_stream", "request_options",
      "future_response", "pollable", "response", "incoming_body",
      "incoming_body_stream" }

\* strlen of the string literals send passes to set_string.
StrLen(str) ==
    CASE str = "Failed to create header list" -> 28
      [] str = "Failed to set method" -> 20
      [] str = "Failed to set path" -> 18
      [] str = "Failed to set scheme" -> 20
      [] str = "Failed to set authority" -> 23
      [] str = "Failed to get outgoing body" -> 27
      [] str = "Failed to get outgoing body stream" -> 34
      [] str = "Failed to write body" -> 20
      [] str = "Failed to finish body" -> 21
      [] str = "Failed to set connect timeout" -> 29
      [] str = "Failed to set first byte timeout" -> 32
      [] str = "Failed to set between-bytes timeout" -> 35
      [] str = "Failed to send request" -> 22
      [] str = "Returned with error code" -> 24
      [] str = "Returned with error" -> 19
      [] str = "Failed to consume response" -> 26
      [] str = "Failed to get body stream" -> 25
      [] str = "Failed to read from body stream" -> 31
      [] OTHER -> 0

\* ret before send has written it.
RetUnset == [kind |-> "unset", str |-> "", buf |-> <<>>, len |-> 0]

\* set_string(ret, str): ret points at the literal, len is its strlen.
set_string(str) == [kind |-> "literal", str |-> str, buf |-> <<>>, len |-> StrLen(str)]

\* ret->ptr = full_body; ret->len = len;
RetBody(body, n) == [kind |-> "heap", str |-> "", buf |-> body, len |-> n]

\* A mutation of ErrorMessage: the dispatch failure branch sets no message.
ErrorMessageDispatchSilent(step, res) ==
    CASE step = "fields" -> "Failed to create header list"
      [] step = "set_method" -> "Failed to set method"
      [] step = "set_path" -> "Failed to set path"
      [] step = "set_scheme" -> "Failed to set scheme"
      [] step = "set_authority" -> "Failed to set authority"
      [] step = "request_body" -> "Failed to get outgoing body"
      [] step = "body_write" -> "Failed to get outgoing body stream"
      [] step = "write" -> "Failed to write body"
      [] step = "finish" -> "Failed to finish body"
      [] step = "connect_timeout" -> "Failed to set connect timeout"
      [] step = "first_byte_timeout" -> "Failed to set first byte timeout"
      [] step = "between_bytes_timeout" -> "Failed to set between-bytes timeout"
      [] step = "handle" -> ""
      [] step = "future_get" /\ res = "error-code" -> "Returned with error code"
      [] step = "future_get" /\ res # "error-code" -> "Returned with error"
      [] step = "consume" -> "Failed to consume response"
      [] step = "body_stream" -> "Failed to get body stream"
      [] step = "read" -> "Failed to read from body stream"

\* The message each failure branch of send passes to set_string.
ErrorMessage(step, res) ==
    CASE step = "fields" -> "Failed to create header list"
      [] step = "set_method" -> "Failed to set method"
      [] step = "set_path" -> "Failed to set path"
      [] step = "set_scheme" -> "Failed to set scheme"
      [] step = "set_authority" -> "Failed to set authority"
      [] step = "request_body" -> "Failed to get outgoing body"
      [] step = "body_write" -> "Failed to get outgoing body stream"
      [] step = "write" -> "Failed to write body"
      [] step = "finish" -> "Failed to finish body"
      [] step = "connect_timeout" -> "Failed to set connect timeout"
      [] step = "first_byte_timeout" -> "Failed to set first byte timeout"
      [] step = "between_bytes_timeout" -> "Failed to set between-bytes timeout"
      [] step = "handle" -> "Failed to send request"
      [] step = "future_get" /\ res = "error-code" -> "Returned with error code"
      [] step = "future_get" /\ res # "error-code" -> "Returned with error"
      [] step = "consume" -> "Failed to consume response"
      [] step = "body_stream" -> "Failed to get body stream"
      [] step = "read" -> "Failed to read from body stream"

\* The fixed error messages of send.
ErrorMessages ==
    { "Failed to create header list", "Failed to set method", "Failed to set path",
      "Failed to set scheme", "Failed to set authority",
      "Failed to get outgoing body", "Failed to get outgoing body stream",
      "Failed to write body", "Failed to finish body",
      "Failed to set connect timeout", "Failed to set first byte timeout",
      "Failed to set between-bytes timeout", "Failed to send request",
      "Returned with error code", "Returned with error",
      "Failed to consume response", "Failed to get body stream",
      "Failed to read from body stream" }

\* The order of the workflow's steps as send is written: the step that
\* follows each step when it succeeds.
Workflow ==
    << "fields", "ctor_request", "set_method", "set_path", "set_scheme",
       "set_authority", "request_body", "body_write", "write", "finish",
       "ctor_options", "connect_timeout", "first_byte_timeout",
       "between_bytes_timeout", "handle", "future_get", "status", "consume",
       "body_stream", "read", "finalize", "returned" >>

\* The position of a step in the workflow.
Pos(step) == CHOOSE i \in 1..Len(Workflow) : Workflow[i] = step

\* A mutation of After: the request is dispatched right after the body is
\* written, before the body is finished and the timeouts are set.
AfterDispatchEarly(step) ==
    IF step = "write" THEN "handle" ELSE Workflow[Pos(step) + 1]

\* A mutation of After: a successful between-bytes setter goes back to the
\* connect-timeout setter once more.
AfterRepeatOptions(step) ==
    IF step = "between_bytes_timeout" THEN "connect_timeout"
    ELSE Workflow[Pos(step) + 1]

\* A mutation of After: the end of the read loop leads back into the loop.
AfterReadAgain(step) ==
    IF step = "read" THEN "read" ELSE Workflow[Pos(step) + 1]

\* The step send goes on to after `step` has succeeded.
After(step) == Workflow[Pos(step) + 1]

\* What the host may answer to each kind of call.
Fallible == {"ok", "err"}
StreamErrors == {"closed", "last-operation-failed"}
FutureResults == {"none", "ok", "error-code", "err"}
StatusCodes == {200, 404}

\* blocking_read is asked for at most ReadMax bytes.
ReadMax == 1024
\* The chunks a successful read may return: blocking_read gives at least one
\* byte and at most ReadMax.
Chunks == {c \in {<<1>>, <<2, 3>>} : Len(c) <= ReadMax}

VARIABLES
    total,          \* static uint64_t total
    sum,            \* history: the mathematical sum of the values added
    nAdds,          \* history: the number of add calls
    lastGet,        \* the value the last get returned, <<>> when none
    nSends,         \* history: the number of send calls
    pc,             \* where send is: "idle", a step of the workflow, "returned"
    h,              \* the state of each handle variable of send
    acquired,       \* history: the handles in the order send acquired them
    released,       \* history: the handles in the order send released them
    cleanup,        \* history: the handles dropped by the failure branch taken
    misuse,         \* history: a handle was used while not live
    ret,            \* the output parameter of send
    hist,           \* history: the calls made by this send and their results
    failed,         \* history: a step of this send has failed
    nPolls,         \* history: iterations of the await loop that polled
    got_response,   \* bool got_response
    response,       \* the response handle variable: "unset" or "assigned"
    status,         \* the status code read, 0 before
    eof,            \* bool eof
    full_body,      \* the heap buffer the body is read into
    len,            \* uint64_t len
    chunks,         \* history: the chunks the successful reads returned
    count_arg,      \* the value of total passed to sprintf, <<>> before
    log,            \* history: the gains, moves and drops of this send, in order
    prevRun,        \* history: the calls, chunks and result of the send before
    runPc,          \* large-dynamic-memory run: where it is
    run_i,          \* large-dynamic-memory run: int i
    DATA,           \* large-dynamic-memory run: char* DATA, "null" or "block"
    blocks,         \* large-dynamic-memory run: the 1MB blocks allocated
    run_result,     \* large-dynamic-memory run: the value returned, -1 before
    printPc,        \* c-1 print: where it is
    s_mem,          \* c-1 print: the bytes of memory from s->ptr on
    s_len,          \* c-1 print: s->len
    print_buf,      \* c-1 print: char* buf, <<>> before malloc
    srcReads,       \* history: the indices of s->ptr print has read
    printed         \* c-1 print: the bytes printf wrote for %s

counterVars == <<total, sum, nAdds, lastGet>>
bodyVars == <<got_response, response, status, eof, full_body, len, chunks>>
sendVars ==
    <<nSends, pc, h, acquired, released, cleanup, misuse, ret, hist, failed,
      nPolls, bodyVars, count_arg, log>>
runVars == <<runPc, run_i, DATA, blocks, run_result>>
printVars == <<printPc, s_mem, s_len, print_buf, srcReads, printed>>
otherVars == <<prevRun, runVars, printVars>>
vars == <<counterVars, sendVars, otherVars>>

InSend == pc \notin {"idle", "returned"}

(***************************************************************************)
(* Handle events.  A call borrows, takes ("move") or yields ("gain")       *)
(* handles; a drop releases one.  Using a handle that is not live is       *)
(* recorded in misuse.                                                     *)
(***************************************************************************)
Ev(kind, x) == [kind |-> kind, x |-> x]

HState ==
    [h |-> h, acquired |-> acquired, released |-> released, misuse |-> misuse,
     log |-> log]

ApplyEvent(st, e) ==
    CASE e.kind = "borrow" ->
           [st EXCEPT !.misuse = st.misuse \/ st.h[e.x] # "live"]
      [] e.kind = "gain" ->
           [st EXCEPT !.h[e.x] = "live",
                      !.acquired = Append(st.acquired, e.x),
                      !.log = Append(st.log, e)]
      [] e.kind = "move" ->
           [st EXCEPT !.misuse = st.misuse \/ st.h[e.x] # "live",
                      !.h[e.x] = "moved",
                      !.released = Append(st.released, e.x),
                      !.log = Append(st.log, e)]
      [] e.kind = "drop" ->
           [st EXCEPT !.misuse = st.misuse \/ st.h[e.x] # "live",
                      !.h[e.x] = "dropped",
                      !.released = Append(st.released, e.x),
                      !.log = Append(st.log, e)]

RECURSIVE ApplyEvents(_, _)
ApplyEvents(st, es) ==
    IF es = <<>> THEN st ELSE ApplyEvents(ApplyEvent(st, Head(es)), Tail(es))

Drops(xs) == [i \in 1..Len(xs) |-> Ev("drop", xs[i])]

\* The handle variables take the state st.
SetHandles(st) ==
    /\ h' = st.h
    /\ acquired' = st.acquired
    /\ released' = st.released
    /\ misuse' = st.misuse
    /\ log' = st.log

\* A call of the workflow that succeeded: its handle events, then on to `next`.
Succeed(step, res, events, next) ==
    /\ hist' = Append(hist, [op |-> step, res |-> res])
    /\ SetHandles(ApplyEvents(HState, events))
    /\ pc' = next
    /\ UNCHANGED <<cleanup, ret, failed>>

\* A call of the workflow that failed: its handle events, then the failure
\* branch: set_string(ret, message), the drops of the branch, return.
Fail(step, res, events, drops) ==
    /\ hist' = Append(hist, [op |-> step, res |-> res])
    /\ SetHandles(ApplyEvents(HState, events \o Drops(drops)))
    /\ ret' = set_string(ErrorMessage(step, res))
    /\ cleanup' = drops
    /\ failed' = TRUE
    /\ pc' = "returned"

(***************************************************************************)
(* The heap buffer of the body-read loop.  malloc and realloc are taken to  *)
(* succeed: send never tests their results.  len stays far below 2^64, so  *)
(* it is kept as a plain number.                                           *)
(***************************************************************************)
\* A byte realloc has not given a value to.
Indeterminate == -1

\* realloc(buf, n): the first min(Len(buf), n) bytes are kept.
Realloc(buf, n) == [i \in 1..n |-> IF i <= Len(buf) THEN buf[i] ELSE Indeterminate]

\* A mutation of Memcpy: every chunk is copied to the start of the buffer.
MemcpyAtStart(buf, off, src) ==
    [i \in 1..Len(buf) |-> IF i <= Len(src) THEN src[i] ELSE buf[i]]

\* memcpy(buf + off, src.ptr, src.len)
Memcpy(buf, off, src) ==
    [i \in 1..Len(buf) |->
        IF i > off /\ i <= off + Len(src) THEN src[i - off] ELSE buf[i]]

\* A mutation of IsClosed: every stream error ends the read loop as end-of-stream.
IsClosedAnyTag(tag) == tag \in StreamErrors

\* stream_err.tag == WASI_IO_STREAMS_STREAM_ERROR_CLOSED
IsClosed(tag) == tag = "closed"

\* A mutation of ResponseOk: only the outer result is tested, so an error code
\* inside an ok outer result counts as a response.
ResponseOkOuterOnly(res) == res \in {"ok", "error-code"}

\* !res.is_err && !res.val.ok.is_err
ResponseOk(res) == res = "ok"

(***************************************************************************)
(* The counter exports.  An export runs to completion: add and get are     *)
(* called only while send is not running.                                  *)
(***************************************************************************)
\* exports_pack_name_api_add(value)
Add ==
    /\ ~InSend
    /\ nAdds < MaxAdds
    /\ \E value \in AddValues :
          /\ total' = Add64(total, value)
          /\ sum' = AddWrap(sum, Extend(value, WideLimbs))
    /\ nAdds' = nAdds + 1
    /\ UNCHANGED <<lastGet, sendVars>>
    /\ UNCHANGED otherVars

\* A mutation of Get: reading the counter also resets it.
GetResetting ==
    /\ ~InSend
    /\ lastGet' = total
    /\ total' = Zero(NumLimbs)
    /\ UNCHANGED <<sum, nAdds, sendVars>>
    /\ UNCHANGED otherVars

\* exports_pack_name_api_get()
Get ==
    /\ ~InSend
    /\ lastGet' = total
    /\ UNCHANGED <<total, sum, nAdds, sendVars>>
    /\ UNCHANGED otherVars

(***************************************************************************)
(* exports_pack_name_api_send, one action per call of the binding.         *)
(***************************************************************************)
NoHandles == [x \in Handles |-> "none"]

\* send is entered: its locals are fresh, ret is the caller's unwritten slot.
SendCall ==
    /\ ~InSend
    /\ nSends < MaxSends
    /\ nSends' = nSends + 1
    /\ pc' = "fields"
    /\ h' = NoHandles
    /\ acquired' = <<>>
    /\ released' = <<>>
    /\ cleanup' = <<>>
    /\ misuse' = FALSE
    /\ ret' = RetUnset
    /\ hist' = <<>>
    /\ failed' = FALSE
    /\ nPolls' = 0
    /\ got_response' = FALSE
    /\ response' = "unset"
    /\ status' = 0
    /\ eof' = FALSE
    /\ full_body' = <<>>
    /\ len' = 0
    /\ chunks' = <<>>
    /\ count_arg' = <<>>
    /\ log' = <<>>
    /\ UNCHANGED counterVars
    /\ UNCHANGED otherVars

Rest == <<counterVars, nSends, nPolls, bodyVars, count_arg>>

\* wasi_http_types_static_fields_from_list
Fields ==
    /\ pc = "fields"
    /\ \E r \in Fallible :
          IF r = "ok"
          THEN Succeed("fields", r, <<Ev("gain", "headers")>>, After("fields"))
          ELSE Fail("fields", r, <<>>, <<>>)
    /\ UNCHANGED Rest
    /\ UNCHANGED otherVars

\* wasi_http_types_constructor_outgoing_request(headers)
CtorRequest ==
    /\ pc = "ctor_request"
    /\ Succeed("ctor_request", "ok",
               <<Ev("move", "headers"), Ev("gain", "request")>>,
               After("ctor_request"))
    /\ UNCHANGED Rest
    /\ UNCHANGED otherVars

\* One of the four setters of the request, each with the same failure branch.
RequestSetter(step) ==
    /\ pc = step
    /\ \E r \in Fallible :
          IF r = "ok"
          THEN Succeed(step, r, <<Ev("borrow", "request")>>, After(step))
          ELSE Fail(step, r, <<Ev("borrow", "request")>>, <<"request">>)
    /\ UNCHANGED Rest
    /\ UNCHANGED otherVars

SetMethod == RequestSetter("set_method")
SetPath == RequestSetter("set_path")
SetScheme == RequestSetter("set_scheme")
SetAuthority == RequestSetter("set_authority")

\* wasi_http_types_method_outgoing_request_body
RequestBody ==
    /\ pc = "request_body"
    /\ \E r \in Fallible :
          IF r = "ok"
          THEN Succeed("request_body", r,
                       <<Ev("borrow", "request"), Ev("gain", "out_body")>>,
                       After("request_body"))
          ELSE Fail("request_body", r, <<Ev("borrow", "request")>>, <<"request">>)
    /\ UNCHANGED Rest
    /\ UNCHANGED otherVars

\* wasi_http_types_method_outgoing_body_write
BodyWrite ==
    /\ pc = "body_write"
    /\ \E r \in Fallible :
          IF r = "ok"
          THEN Succeed("body_write", r,
                       <<Ev("borrow", "out_body"), Ev("gain", "out_body_stream")>>,
                       After("body_write"))
          ELSE Fail("body_write", r, <<Ev("borrow", "out_body")>>,
                    <<"out_body", "request">>)
    /\ UNCHANGED Rest
    /\ UNCHANGED otherVars

\* sprintf of total into body_data, then blocking_write_and_flush
Write ==
    /\ pc = "write"
    /\ count_arg' = total
    /\ \E r \in {"ok"} \cup StreamErrors :
          IF r = "ok"
          THEN Succeed("write", r, <<Ev("borrow", "out_body_stream")>>, After("write"))
          ELSE Fail("write", r, <<Ev("borrow", "out_body_stream")>>,
                    <<"out_body_stream", "out_body", "request">>)
    /\ UNCHANGED <<counterVars, nSends, nPolls, bodyVars>>
    /\ UNCHANGED otherVars

\* A mutation of Finish: the failure branch also drops out_body, which finish
\* has already taken.
FinishDropsBody ==
    /\ pc = "finish"
    /\ \E r \in Fallible :
          LET events == <<Ev("drop", "out_body_stream"), Ev("move", "out_body")>>
          IN IF r = "ok"
             THEN Succeed("finish", r, events, After("finish"))
             ELSE Fail("finish", r, events, <<"out_body", "request">>)
    /\ UNCHANGED Rest
    /\ UNCHANGED otherVars

\* output_stream_drop_own(out_body_stream), then outgoing_body_finish(out_body)
Finish ==
    /\ pc = "finish"
    /\ \E r \in Fallible :
          LET events == <<Ev("drop", "out_body_stream"), Ev("move", "out_body")>>
          IN IF r = "ok"
             THEN Succeed("finish", r, events, After("finish"))
             ELSE Fail("finish", r, events, <<"request">>)
    /\ UNCHANGED Rest
    /\ UNCHANGED otherVars

\* wasi_http_types_constructor_request_options()
CtorOptions ==
    /\ pc = "ctor_options"
    /\ Succeed("ctor_options", "ok", <<Ev("gain", "request_options")>>,
               After("ctor_options"))
    /\ UNCHANGED Rest
    /\ UNCHANGED otherVars

\* One of the three timeout setters, each with the same failure branch.
TimeoutSetter(step) ==
    /\ pc = step
    /\ \E r \in Fallible :
          IF r = "ok"
          THEN Succeed(step, r, <<Ev("borrow", "request_options")>>, After(step))
          ELSE Fail(step, r, <<Ev("borrow", "request_options")>>,
                    <<"request_options", "request">>)
    /\ UNCHANGED Rest
    /\ UNCHANGED otherVars

SetConnectTimeout == TimeoutSetter("connect_timeout")
SetFirstByteTimeout == TimeoutSetter("first_byte_timeout")
SetBetweenBytesTimeout == TimeoutSetter("between_bytes_timeout")

\* wasi_http_outgoing_handler_handle(request, &request_options, ...)
Handle ==
    /\ pc = "handle"
    /\ \E r \in Fallible :
          LET events == <<Ev("move", "request"), Ev("move", "request_options")>>
          IN IF r = "ok"
             THEN Succeed("handle", r, events \o <<Ev("gain", "future_response")>>,
                          After("handle"))
             ELSE Fail("handle", r, events, <<>>)
    /\ UNCHANGED Rest
    /\ UNCHANGED otherVars

\* One pass of the await loop up to the answer of future_incoming_response_get:
\* a response, an error, or no result yet.
FutureGet ==
    /\ pc = "future_get"
    /\ ~got_response
    /\ \E r \in FutureResults :
          LET borrow == <<Ev("borrow", "future_response")>>
          IN IF r = "none"
             THEN /\ nPolls < MaxPolls
                  /\ Succeed("future_get", r, borrow, "poll")
                  /\ UNCHANGED <<got_response, response>>
             ELSE IF ResponseOk(r)
             THEN /\ response' = IF r = "ok" THEN "assigned" ELSE "garbage"
                  /\ got_response' = TRUE
                  /\ Succeed("future_get", r,
                             IF r = "ok" THEN borrow \o <<Ev("gain", "response")>>
                                         ELSE borrow,
                             After("future_get"))
             ELSE /\ Fail("future_get", r, borrow, <<"future_response">>)
                  /\ UNCHANGED <<got_response, response>>
    /\ UNCHANGED <<counterVars, nSends, nPolls, status, eof, full_body, len,
                   chunks, count_arg>>
    /\ UNCHANGED otherVars

\* The rest of a pass that got no result: subscribe, poll, drop the pollable,
\* and back to the loop test.
Poll ==
    /\ pc = "poll"
    /\ Succeed("poll", "ok",
               << Ev("borrow", "future_response"), Ev("gain", "pollable"),
                  Ev("borrow", "pollable"), Ev("drop", "pollable") >>,
               IF got_response THEN After("future_get") ELSE "future_get")
    /\ nPolls' = nPolls + 1
    /\ UNCHANGED <<counterVars, nSends, bodyVars, count_arg>>
    /\ UNCHANGED otherVars

\* A mutation of Status: a status of 400 or more is treated as a failure.
StatusRejectsErrors ==
    /\ pc = "status"
    /\ \E code \in StatusCodes :
          /\ status' = code
          /\ hist' = Append(hist, [op |-> "status", res |-> "ok"])
          /\ IF code < 400
             THEN /\ SetHandles(ApplyEvents(HState, <<Ev("borrow", "response")>>))
                  /\ pc' = After("status")
                  /\ UNCHANGED <<cleanup, ret, failed>>
             ELSE /\ SetHandles(ApplyEvents(HState,
                        <<Ev("borrow", "response"), Ev("drop", "response")>>))
                  /\ ret' = set_string("Failed to consume response")
                  /\ cleanup' = <<"response">>
                  /\ failed' = TRUE
                  /\ pc' = "returned"
    /\ UNCHANGED <<counterVars, nSends, nPolls, got_response, response, eof,
                   full_body, len, chunks, count_arg>>
    /\ UNCHANGED otherVars

\* wasi_http_types_method_incoming_response_status
Status ==
    /\ pc = "status"
    /\ \E code \in StatusCodes : status' = code
    /\ Succeed("status", "ok", <<Ev("borrow", "response")>>, After("status"))
    /\ UNCHANGED <<counterVars, nSends, nPolls, got_response, response, eof,
                   full_body, len, chunks, count_arg>>
    /\ UNCHANGED otherVars

\* wasi_http_types_method_incoming_response_consume
Consume ==
    /\ pc = "consume"
    /\ \E r \in Fallible :
          IF r = "ok"
          THEN Succeed("consume", r,
                       <<Ev("borrow", "response"), Ev("gain", "incoming_body")>>,
                       After("consume"))
          ELSE Fail("consume", r, <<Ev("borrow", "response")>>, <<"response">>)
    /\ UNCHANGED Rest
    /\ UNCHANGED otherVars

\* wasi_http_types_method_incoming_body_stream, then eof, full_body and len are set up
BodyStream ==
    /\ pc = "body_stream"
    /\ \E r \in Fallible :
          IF r = "ok"
          THEN /\ Succeed("body_stream", r,
                          << Ev("borrow", "incoming_body"),
                             Ev("gain", "incoming_body_stream") >>,
                          After("body_stream"))
               /\ eof' = FALSE
               /\ full_body' = <<>>
               /\ len' = 0
          ELSE /\ Fail("body_stream", r, <<Ev("borrow", "incoming_body")>>,
                       <<"incoming_body", "response">>)
               /\ UNCHANGED <<eof, full_body, len>>
    /\ UNCHANGED <<counterVars, nSends, nPolls, got_response, response, status,
                   chunks, count_arg>>
    /\ UNCHANGED otherVars

\* One pass of the read loop: blocking_read gives a chunk or a stream error.
Read ==
    /\ pc = "read"
    /\ ~eof
    /\ LET borrow == <<Ev("borrow", "incoming_body_stream")>>
       IN \/ \E chunk \in Chunks :
                /\ Len(chunks) < MaxReads
                /\ len' = len + Len(chunk)
                /\ full_body' = Memcpy(Realloc(full_body, len'), len' - Len(chunk), chunk)
                /\ chunks' = Append(chunks, chunk)
                /\ Succeed("read", "ok", borrow, "read")
                /\ UNCHANGED eof
          \/ \E tag \in StreamErrors :
                IF IsClosed(tag)
                THEN /\ eof' = TRUE
                     /\ Succeed("read", tag, borrow, After("read"))
                     /\ UNCHANGED <<full_body, len, chunks>>
                ELSE /\ Fail("read", tag, borrow,
                             <<"incoming_body_stream", "incoming_body", "response">>)
                     /\ UNCHANGED <<eof, full_body, len, chunks>>
    /\ UNCHANGED <<counterVars, nSends, nPolls, got_response, response, status,
                   count_arg>>
    /\ UNCHANGED otherVars

\* A mutation of Finalize: the three drops are made parent first.
FinalizeParentFirst ==
    /\ pc = "finalize"
    /\ SetHandles(ApplyEvents(HState,
            Drops(<<"response", "incoming_body", "incoming_body_stream">>)))
    /\ ret' = RetBody(full_body, len)
    /\ pc' = "returned"
    /\ UNCHANGED <<cleanup, hist, failed, Rest>>
    /\ UNCHANGED otherVars

\* After the read loop: the three drops, then ret is the body read.
Finalize ==
    /\ pc = "finalize"
    /\ SetHandles(ApplyEvents(HState,
            Drops(<<"incoming_body_stream", "incoming_body", "response">>)))
    /\ ret' = RetBody(full_body, len)
    /\ pc' = "returned"
    /\ UNCHANGED <<cleanup, hist, failed, Rest>>
    /\ UNCHANGED otherVars

\* No earlier send to compare with.
NoRun == [hist |-> <<>>, chunks |-> <<>>, ret |-> RetUnset, status |-> 0]

\* The two test fixtures are other components: here they are not running.
FixturesIdle ==
    /\ prevRun = NoRun
    /\ runPc = "idle"
    /\ run_i = 0
    /\ DATA = "null"
    /\ blocks = 0
    /\ run_result = -1
    /\ printPc = "idle"
    /\ s_mem = <<>>
    /\ s_len = 0
    /\ print_buf = <<>>
    /\ srcReads = {}
    /\ printed = <<>>

Init ==
    /\ total = InitTotal
    /\ sum = Zero(WideLimbs)
    /\ nAdds = 0
    /\ lastGet = <<>>
    /\ nSends = 0
    /\ pc = "idle"
    /\ h = NoHandles
    /\ acquired = <<>>
    /\ released = <<>>
    /\ cleanup = <<>>
    /\ misuse = FALSE
    /\ ret = RetUnset
    /\ hist = <<>>
    /\ failed = FALSE
    /\ nPolls = 0
    /\ got_response = FALSE
    /\ response = "unset"
    /\ status = 0
    /\ eof = FALSE
    /\ full_body = <<>>
    /\ len = 0
    /\ chunks = <<>>
    /\ count_arg = <<>>
    /\ log = <<>>
    /\ FixturesIdle

Next ==
    \/ Add
    \/ Get
    \/ SendCall
    \/ Fields
    \/ CtorRequest
    \/ SetMethod
    \/ SetPath
    \/ SetScheme
    \/ SetAuthority
    \/ RequestBody
    \/ BodyWrite
    \/ Write
    \/ Finish
    \/ CtorOptions
    \/ SetConnectTimeout
    \/ SetFirstByteTimeout
    \/ SetBetweenBytesTimeout
    \/ Handle
    \/ FutureGet
    \/ Poll
    \/ Status
    \/ Consume
    \/ BodyStream
    \/ Read
    \/ Finalize

Spec == Init /\ [][Next]_vars

(***************************************************************************)
(* Properties.                                                             *)
(***************************************************************************)
Returned == pc = "returned"

Count(seq, x) == Cardinality({i \in 1..Len(seq) : seq[i] = x})

InSeq(seq, x) == \E i \in 1..Len(seq) : seq[i] = x

Reverse(seq) == [i \in 1..Len(seq) |-> seq[Len(seq) + 1 - i]]

\* The concatenation of a sequence of byte sequences, and its length.
RECURSIVE Flatten(_)
Flatten(seqs) == IF seqs = <<>> THEN <<>> ELSE Head(seqs) \o Flatten(Tail(seqs))

RECURSIVE SumLen(_)
SumLen(seqs) == IF seqs = <<>> THEN 0 ELSE Len(Head(seqs)) + SumLen(Tail(seqs))

\* A wide number reduced modulo 2^64.
Low64(w) == SubSeq(w, 1, NumLimbs)

\* A call that reported a failure: a fallible step's error, a stream error of
\* the body write, the future resolving to an error, a non-closed read error.
IsFailure(e) ==
    \/ e.res \in {"err", "error-code", "last-operation-failed"}
    \/ e.op = "write" /\ e.res = "closed"

NoStepFailed == \A i \in 1..Len(hist) : ~IsFailure(hist[i])

LastCall == hist[Len(hist)]

\* C1, as stated: a get returns the sum of the values added so far.
C1_GetReturnsSum == [][Get => Extend(lastGet', WideLimbs) = sum]_vars

\* C1, amended: a get, after any calls of add interleaved with get and send,
\* returns the sum of the values added reduced modulo 2^64 (the sum itself
\* while it is below 2^64).
C1_GetReturnsSumMod64 == [][Get => lastGet' = Low64(sum)]_vars

\* C1 witness: a get has returned after a send and at least two adds whose sum
\* has reached 2^64.
C1_Witness ==
    /\ nAdds >= 2
    /\ nSends >= 1
    /\ lastGet = total
    /\ sum[WideLimbs] > 0

\* C2: while add has not been called, total is 0 and every get has returned 0.
C2_FreshGetIsZero ==
    nAdds = 0 => total = <<0, 0, 0, 0>> /\ lastGet \in {<<>>, <<0, 0, 0, 0>>}

\* C2 witness: get has returned on an instance add was never called on.
C2_Witness == nAdds = 0 /\ lastGet = <<0, 0, 0, 0>>

\* C3: when send has returned, no handle is live and every handle acquired has
\* been released exactly once.
C3_EveryHandleReleasedOnce ==
    Returned =>
        \A x \in Handles :
            /\ h[x] # "live"
            /\ Count(released, x) = Count(acquired, x)

\* C4: a call that reported a failure is the last call send makes, and send has
\* then returned with ret a non-empty one of its error messages.
C4_FailureAbortsWithMessage ==
    \A i \in 1..Len(hist) :
        IsFailure(hist[i]) =>
            /\ i = Len(hist)
            /\ Returned
            /\ ret.kind = "literal"
            /\ ret.len > 0
            /\ ret.str \in ErrorMessages

\* C4 witness: send has returned after its last fallible step, a read, failed.
C4_Witness ==
    /\ Returned
    /\ hist # <<>>
    /\ LastCall = [op |-> "read", res |-> "last-operation-failed"]
    /\ ret.len > 0

\* The handles send owned when the failure branch began, in acquisition order.
OwnedAtFailure == SelectSeq(acquired, LAMBDA x : h[x] = "live" \/ InSeq(cleanup, x))

\* C5: on a failure exit, the failure branch drops every handle send still owns,
\* the most recently acquired first.
C5_CleanupReversesAcquisition ==
    (Returned /\ ~NoStepFailed) => cleanup = Reverse(OwnedAtFailure)

\* The place of each call in the order the workflow is specified in.
Rank(op) ==
    CASE op = "fields" -> 1
      [] op = "ctor_request" -> 2
      [] op = "set_method" -> 3
      [] op = "set_path" -> 4
      [] op = "set_scheme" -> 5
      [] op = "set_authority" -> 6
      [] op = "request_body" -> 7
      [] op = "body_write" -> 8
      [] op = "write" -> 9
      [] op = "finish" -> 10
      [] op = "ctor_options" -> 11
      [] op = "connect_timeout" -> 12
      [] op = "first_byte_timeout" -> 13
      [] op = "between_bytes_timeout" -> 14
      [] op = "handle" -> 15
      [] op \in {"future_get", "poll"} -> 16
      [] op = "status" -> 17
      [] op = "consume" -> 18
      [] op = "body_stream" -> 19
      [] op = "read" -> 20

SucceededBefore(op, i) ==
    \E j \in 1..(i - 1) : hist[j] = [op |-> op, res |-> "ok"]

\* C6: the calls of send occur in the specified order, none skipped, only the
\* await loop and the read loop repeating; the request is dispatched only after
\* the body was finished and the three timeouts were set, and the status and the
\* body are read only after the future gave a response.
C6_StepsInOrder ==
    /\ hist # <<>> => hist[1].op = "fields"
    /\ \A i \in 1..(Len(hist) - 1) :
          \/ Rank(hist[i + 1].op) = Rank(hist[i].op) + 1
          \/ /\ Rank(hist[i + 1].op) = Rank(hist[i].op)
             /\ hist[i].op \in {"future_get", "poll", "read"}
    /\ \A i \in 1..Len(hist) :
          /\ hist[i].op = "handle" =>
                /\ SucceededBefore("finish", i)
                /\ SucceededBefore("connect_timeout", i)
                /\ SucceededBefore("first_byte_timeout", i)
                /\ SucceededBefore("between_bytes_timeout", i)
          /\ hist[i].op \in {"status", "consume", "body_stream", "read"} =>
                SucceededBefore("future_get", i)

\* C6 witness: a send that polled, got a response and read a chunk has returned
\* the body.
C6_Witness ==
    /\ Returned
    /\ ret.kind = "heap"
    /\ nPolls >= 1
    /\ Len(chunks) >= 1

\* C7: when send has returned and no step failed, ret is the chunks of the
\* successful reads concatenated in read order and its length the sum of their
\* lengths; when a step failed, ret is one of the fixed error messages.
C7_BodyOrMessage ==
    (Returned /\ nSends > 0) =>
        IF NoStepFailed
        THEN /\ ret.kind = "heap"
             /\ ret.buf = Flatten(chunks)
             /\ ret.len = SumLen(chunks)
        ELSE /\ ret.kind = "literal"
             /\ ret.str \in ErrorMessages

\* C7 witness: send has returned a body made of two chunks.
C7_Witness ==
    /\ Returned
    /\ NoStepFailed
    /\ Len(chunks) = 2
    /\ ret.len >= 3

\* C8, as stated: after any stream error tagged closed send returns the body
\* accumulated; after a stream error with another tag it returns a message.
C8_ClosedIsSuccess ==
    Returned =>
        \A i \in 1..Len(hist) :
            /\ hist[i].res = "closed" => ret.kind = "heap"
            /\ hist[i].res = "last-operation-failed" => ret.kind = "literal"

\* C8, amended: a stream error tagged closed from a read of the response body is
\* end-of-stream, and send returns the bytes read so far as the body; a read
\* error with any other tag, and every error of the body write whatever its tag
\* (closed too), is fatal and send returns an error message.
C8_ReadClosedIsSuccess ==
    Returned =>
        \A i \in 1..Len(hist) :
            /\ hist[i] = [op |-> "read", res |-> "closed"] =>
                  /\ i = Len(hist)
                  /\ ret = RetBody(Flatten(chunks), SumLen(chunks))
            /\ (hist[i].op = "read" /\ hist[i].res \in StreamErrors \ {"closed"}) =>
                  ret = set_string("Failed to read from body stream")
            /\ (hist[i].op = "write" /\ hist[i].res \in StreamErrors) =>
                  ret = set_string("Failed to write body")

\* C8 witness: the read loop got a chunk and then closed, and send has returned.
C8_Witness ==
    /\ Returned
    /\ hist # <<>>
    /\ LastCall = [op |-> "read", res |-> "closed"]
    /\ Len(chunks) >= 1

\* The calls that build the request, set its options and dispatch it.
OnceOps ==
    { "fields", "ctor_request", "set_method", "set_path", "set_scheme",
      "set_authority", "request_body", "body_write", "write", "finish",
      "ctor_options", "connect_timeout", "first_byte_timeout",
      "between_bytes_timeout", "handle" }

\* C9: no call that reported a failure is made again in the same send, and each
\* construction, option-setting and dispatch call is made at most once.
C9_NoRetries ==
    /\ \A i \in 1..Len(hist) :
          IsFailure(hist[i]) \/ hist[i].res = "closed" =>
              \A j \in (i + 1)..Len(hist) : hist[j].op # hist[i].op
    /\ \A op \in OnceOps :
          Cardinality({i \in 1..Len(hist) : hist[i].op = op}) <= 1

\* C9 witness: the dispatch failed and send has returned.
C9_Witness ==
    /\ Returned
    /\ hist # <<>>
    /\ LastCall = [op |-> "handle", res |-> "err"]

\* C10: send is past the await loop only with got_response set and the response
\* handle assigned from an ok result; a get that gave no result yet is followed
\* by a poll and another get, never by a return or a read of the response.
C10_AwaitLoopExit ==
    /\ pc \in {"status", "consume", "body_stream", "read", "finalize"} =>
          /\ got_response
          /\ response = "assigned"
          /\ h["response"] = "live"
    /\ \A i \in 1..Len(hist) :
          /\ hist[i] = [op |-> "future_get", res |-> "none"] =>
                /\ ~(Returned /\ i = Len(hist))
                /\ i < Len(hist) => hist[i + 1].op = "poll"
          /\ hist[i].op = "poll" =>
                /\ ~(Returned /\ i = Len(hist))
                /\ i < Len(hist) => hist[i + 1].op = "future_get"
          /\ hist[i].op \in {"status", "consume"} =>
                /\ i > 1
                /\ hist[i - 1].op \in {"future_get", "status"}
                /\ SucceededBefore("future_get", i)
                /\ response = "assigned"

\* C10 witness: the loop polled before the future gave the response send is
\* about to read the status of.
C10_Witness ==
    /\ pc = "status"
    /\ nPolls >= 1
    /\ got_response

(***************************************************************************)
(* test-components/large-dynamic-memory: run.                              *)
(***************************************************************************)
COUNT == 512
PAGE_SIZE == 1024 * 1024

\* What malloc may return: a fresh block of the size asked for, or NULL.
MallocResults == {"block", "null"}

\* What reading ptr[index] does.  Inside a block of `size` bytes it gives the
\* byte; through NULL or outside the block the behaviour is undefined: the
\* instance traps, or the read gives whatever is at that address.
Deref(ptr, index, size) ==
    IF ptr = "block" /\ index >= 0 /\ index < size
    THEN {"byte"}
    ELSE {"trap", "garbage"}

otherThanRun == <<counterVars, sendVars, prevRun, printVars>>

\* exports_c_api1_run is entered: i = 0, and the loop test.
RunCall ==
    /\ runPc = "idle"
    /\ run_i' = 0
    /\ runPc' = IF 0 < COUNT THEN "malloc" ELSE "done"
    /\ run_result' = IF 0 < COUNT THEN run_result ELSE 0
    /\ UNCHANGED <<DATA, blocks, otherThanRun>>

\* char* DATA = malloc(PAGE_SIZE);  the result is not tested.
RunMalloc ==
    /\ runPc = "malloc"
    /\ \E r \in MallocResults :
          /\ DATA' = r
          /\ blocks' = IF r = "block" THEN blocks + 1 ELSE blocks
    /\ runPc' = "first"
    /\ UNCHANGED <<run_i, run_result, otherThanRun>>

\* printf of DATA[0]
RunFirst ==
    /\ runPc = "first"
    /\ \E r \in Deref(DATA, 0, PAGE_SIZE) :
          runPc' = IF r = "trap" THEN "trap" ELSE "last"
    /\ UNCHANGED <<run_i, DATA, blocks, run_result, otherThanRun>>

\* printf of DATA[PAGE_SIZE-1], usleep(5), i++ and the loop test; return 0
RunLast ==
    /\ runPc = "last"
    /\ \E r \in Deref(DATA, PAGE_SIZE - 1, PAGE_SIZE) :
          IF r = "trap"
          THEN /\ runPc' = "trap"
               /\ UNCHANGED <<run_i, run_result>>
          ELSE /\ run_i' = run_i + 1
               /\ runPc' = IF run_i + 1 < COUNT THEN "malloc" ELSE "done"
               /\ run_result' = IF run_i + 1 < COUNT THEN run_result ELSE 0
    /\ UNCHANGED <<DATA, blocks, otherThanRun>>

NextRun ==
    \/ RunCall
    \/ RunMalloc
    \/ RunFirst
    \/ RunLast

RunSpec == Init /\ [][NextRun]_vars

\* C11: run never traps, and when it has returned it has completed exactly
\* COUNT iterations, each having allocated a block of its own, and returned 0.
C11_RunCompletes ==
    /\ runPc # "trap"
    /\ runPc = "done" => run_i = COUNT /\ blocks = COUNT /\ run_result = 0

(***************************************************************************)
(* test-components/c-1: print.  Byte sequences are indexed from 1 here, C  *)
(* indices from 0: C index k is element k + 1.  malloc is taken to succeed *)
(* and s->len + 1 not to wrap.                                             *)
(***************************************************************************)
MaxStrLen == 3

\* The byte values of the inputs: NUL and two other characters.
Bytes == {0, 1, 2}

\* The C index of the first NUL among the first n bytes of src, n when none.
FirstNul(src, n) ==
    IF \E k \in 0..(n - 1) : src[k + 1] = 0
    THEN CHOOSE k \in 0..(n - 1) :
            /\ src[k + 1] = 0
            /\ \A j \in 0..(k - 1) : src[j + 1] # 0
    ELSE n

\* malloc(n) followed by memset(buf, 0, n)
Memset(n) == [i \in 1..n |-> 0]

\* A mutation of Strncpy: strcpy, which copies up to the first NUL of src
\* whatever n is (writes past the end of dst are not kept).
StrcpyAll(dst, src, n) ==
    LET fn == FirstNul(src, Len(src))
    IN [dst |-> [i \in 1..Len(dst) |-> IF i - 1 < fn THEN src[i] ELSE 0],
        reads |-> 0..(IF fn < Len(src) THEN fn ELSE Len(src) - 1)]

\* strncpy(dst, src, n): the bytes of src up to its first NUL or n bytes,
\* whichever is first, then NULs up to n bytes; the source indices it reads.
Strncpy(dst, src, n) ==
    LET fn == FirstNul(src, n)
    IN [dst |-> [i \in 1..Len(dst) |->
                    IF i > n THEN dst[i]
                    ELSE IF i - 1 < fn THEN src[i] ELSE 0],
        reads |-> 0..(IF fn < n THEN fn ELSE n - 1)]

otherThanPrint == <<counterVars, sendVars, prevRun, runVars>>

\* exports_c_api1_print(s) is entered with a string of s->len bytes at s->ptr;
\* memory goes on after the string.
PrintCall ==
    /\ printPc = "idle"
    /\ \E n \in 0..MaxStrLen, mem \in [1..(MaxStrLen + 1) -> Bytes] :
          /\ s_len' = n
          /\ s_mem' = mem
    /\ printPc' = "malloc"
    /\ UNCHANGED <<print_buf, srcReads, printed, otherThanPrint>>

\* buf = malloc(s->len + 1); memset(buf, 0, s->len + 1);
PrintAlloc ==
    /\ printPc = "malloc"
    /\ print_buf' = Memset(s_len + 1)
    /\ printPc' = "strncpy"
    /\ UNCHANGED <<s_mem, s_len, srcReads, printed, otherThanPrint>>

\* strncpy(buf, s->ptr, s->len);
PrintCopy ==
    /\ printPc = "strncpy"
    /\ LET r == Strncpy(print_buf, s_mem, s_len)
       IN /\ print_buf' = r.dst
          /\ srcReads' = r.reads
    /\ printPc' = "printf"
    /\ UNCHANGED <<s_mem, s_len, printed, otherThanPrint>>

\* printf("%s %d\n", buf, year): %s writes buf up to its first NUL; with no NUL
\* in buf it reads on past the buffer.
PrintPrintf ==
    /\ printPc = "printf"
    /\ LET fn == FirstNul(print_buf, Len(print_buf))
       IN IF fn < Len(print_buf)
          THEN /\ printed' = SubSeq(print_buf, 1, fn)
               /\ printPc' = "done"
          ELSE /\ printed' = print_buf
               /\ printPc' = "overrun"
    /\ UNCHANGED <<s_mem, s_len, print_buf, srcReads, otherThanPrint>>

NextPrint ==
    \/ PrintCall
    \/ PrintAlloc
    \/ PrintCopy
    \/ PrintPrintf

PrintSpec == Init /\ [][NextPrint]_vars

\* C12: print reads only the bytes at indices 0..len-1 of its input, and the
\* copy it prints has len + 1 bytes with a NUL among them, so printf stops
\* inside the buffer and writes at most len bytes, all of them input bytes.
C12_PrintStaysInBounds ==
    /\ printPc # "overrun"
    /\ printPc \in {"printf", "done"} =>
          /\ \A k \in srcReads : 0 <= k /\ k <= s_len - 1
          /\ Len(print_buf) = s_len + 1
          /\ \E i \in 1..(s_len + 1) : print_buf[i] = 0
    /\ printPc = "done" =>
          /\ Len(printed) <= s_len
          /\ \A i \in 1..Len(printed) : printed[i] = s_mem[i] /\ printed[i] # 0

\* C12 witness: print has printed a string of the longest length, with no NUL
\* in it and a byte other than NUL right after it in memory.
C12_Witness ==
    /\ printPc = "done"
    /\ s_len = MaxStrLen
    /\ Len(printed) = s_len
    /\ s_mem[s_len + 1] # 0

\* C13: a step changes total only if it is a call of add: get and every step
\* of send, on its success and failure paths alike, leave total as it was.
C13_OnlyAddChangesTotal ==
    [][total' # total => nAdds' = nAdds + 1 /\ UNCHANGED <<lastGet, sendVars>>]_vars

\* C13 witness: after an add, a send that formatted total into its body has
\* returned and a get has returned the same total.
C13_Witness ==
    /\ Returned
    /\ nAdds >= 1
    /\ total # Zero(NumLimbs)
    /\ count_arg = total
    /\ lastGet = total

(***************************************************************************)
(* Termination of send.  The host's side of the assumption is in the       *)
(* model's bounds: the future answers "no result yet" at most MaxPolls     *)
(* times and the body stream gives at most MaxReads chunks before it       *)
(* reports closed or another error.  send itself runs on: every call of    *)
(* the binding returns, so a step that can be taken is taken.              *)
(***************************************************************************)
SendStep ==
    \/ Fields
    \/ CtorRequest
    \/ SetMethod
    \/ SetPath
    \/ SetScheme
    \/ SetAuthority
    \/ RequestBody
    \/ BodyWrite
    \/ Write
    \/ Finish
    \/ CtorOptions
    \/ SetConnectTimeout
    \/ SetFirstByteTimeout
    \/ SetBetweenBytesTimeout
    \/ Handle
    \/ FutureGet
    \/ Poll
    \/ Status
    \/ Consume
    \/ BodyStream
    \/ Read
    \/ Finalize

NextSend ==
    \/ Add
    \/ SendCall
    \/ SendStep

LiveSpec == Init /\ [][NextSend]_vars /\ WF_vars(SendStep)

\* C14: with the future ready after finitely many polls and the body stream
\* ending after finitely many chunks, every call of send returns.
C14_SendReturns == InSend ~> Returned

\* C14 witness: send has returned after the await loop polled as often and the
\* read loop read as many chunks as the host allows.
C14_Witness ==
    /\ Returned
    /\ nPolls = MaxPolls
    /\ Len(chunks) = MaxReads
    /\ eof

\* The handles of x live just before event j of the log.
LiveBefore(x, j) ==
    Cardinality({i \in 1..(j - 1) : log[i] = Ev("gain", x)})
      - Cardinality({i \in 1..(j - 1) : log[i].x = x /\ log[i].kind \in {"move", "drop"}})

\* C15: send never borrows, passes on or drops a handle that is not live: not
\* one it has dropped, nor one a consuming call has taken.
C15_NoUseAfterRelease ==
    /\ ~misuse
    /\ \A j \in 1..Len(log) :
          log[j].kind \in {"move", "drop"} => LiveBefore(log[j].x, j) = 1

\* C15 witness: send has returned the body, having given the headers to the
\* request constructor, the body to finish and the request and its options to
\* the dispatch, and having dropped the response.
C15_Witness ==
    /\ Returned
    /\ ret.kind = "heap"
    /\ h["headers"] = "moved"
    /\ h["out_body"] = "moved"
    /\ h["request"] = "moved"
    /\ h["request_options"] = "moved"
    /\ h["response"] = "dropped"

\* The pairs <<child, parent>> of handles: the child was obtained from the parent.
ChildOf ==
    { <<"out_body_stream", "out_body">>,
      <<"pollable", "future_response">>,
      <<"incoming_body_stream", "incoming_body">>,
      <<"incoming_body", "response">> }

C17_AddIsModular ==
    [][nAdds' # nAdds =>
          /\ \E v \in AddValues, carry \in {0, 1} :
                /\ AddExact(total, v) = total' \o <<carry>>
                /\ sum' = AddWrap(sum, Extend(v, WideLimbs))
          /\ total' = Low64(sum')]_vars

\* C17 witness: UINT64_MAX has been added twice: the sum is 2^65 - 2 and the
\* total 2^64 - 2.
C17_Witness ==
    /\ nAdds = 2
    /\ sum = <<LimbBase - 2, LimbBase - 1, LimbBase - 1, LimbBase - 1, 1>>
    /\ total = <<LimbBase - 2, LimbBase - 1, LimbBase - 1, LimbBase - 1>>

(***************************************************************************)
(* Two calls of send on one instance, the first kept for comparison with   *)
(* the second.  total is the same in both.                                 *)
(***************************************************************************)
\* send is called once more: the calls, chunks, status and result of the call
\* before are kept, and the locals are fresh as in SendCall.
SendAgain ==
    /\ pc = "returned"
    /\ nSends = 1
    /\ prevRun = NoRun
    /\ prevRun' = [hist |-> hist, chunks |-> chunks, ret |-> ret, status |-> status]
    /\ nSends' = nSends + 1
    /\ pc' = "fields"
    /\ h' = NoHandles
    /\ acquired' = <<>>
    /\ released' = <<>>
    /\ cleanup' = <<>>
    /\ misuse' = FALSE
    /\ ret' = RetUnset
    /\ hist' = <<>>
    /\ failed' = FALSE
    /\ nPolls' = 0
    /\ got_response' = FALSE
    /\ response' = "unset"
    /\ status' = 0
    /\ eof' = FALSE
    /\ full_body' = <<>>
    /\ len' = 0
    /\ chunks' = <<>>
    /\ count_arg' = <<>>
    /\ log' = <<>>
    /\ UNCHANGED <<counterVars, runVars, printVars>>

NextPair ==
    \/ SendCall
    \/ SendAgain
    \/ SendStep

PairSpec == Init /\ [][NextPair]_vars

Min(a, b) == IF a <= b THEN a ELSE b

\* The host gave this call of send and the one before the same answers, as far
\* as both asked: the same result to each call and the same chunks.
AnswersAgree ==
    /\ \A i \in 1..Min(Len(hist), Len(prevRun.hist)) :
          hist[i].res = prevRun.hist[i].res
    /\ \A i \in 1..Min(Len(chunks), Len(prevRun.chunks)) :
          chunks[i] = prevRun.chunks[i]

\* C18: two calls of send that the host answers alike, whatever status code
\* each response carries, make the same calls and return the same string.
C18_StatusIrrelevant ==
    (Returned /\ prevRun # NoRun /\ AnswersAgree) =>
        /\ hist = prevRun.hist
        /\ ret = prevRun.ret

\* C18 witness: two calls answered alike but for the status code have both
\* returned a body of at least one chunk.
C18_Witness ==
    /\ Returned
    /\ prevRun # NoRun
    /\ AnswersAgree
    /\ status # 0
    /\ prevRun.status # 0
    /\ status # prevRun.status
    /\ ret.kind = "heap"
    /\ Len(chunks) >= 1

====
